---- MODULE Spec2Model ----
(***************************************************************************)
(* vite-plugin-app-version: the plugin instance returned by                *)
(* generateVersion(opts), the host that drives its hooks, the environment  *)
(* it reads (git, package.json, the clock) and the client module that      *)
(* load() generates (onCheck / checkVersion).                              *)
(*                                                                         *)
(* Text is a sequence of chunks (TLA+ strings): punctuation, white space   *)
(* and the content of string literals are separate chunks, so that         *)
(* JSON.stringify and JSON.parse are computed, not assumed.                *)
(***************************************************************************)
EXTENDS Integers, Sequences, FiniteSets, TLC

\* ------------------------------------------------------------------ bounds

\* The clock runs from 1 to MaxClock milliseconds.
MaxClock == 2
\* Array-index keys ("0", "1", ...) a JS object of the model may hold.
MaxIndex == 2
\* Callbacks the client registers with onCheck.
MaxListeners == 2

\* ------------------------------------------------------------ JS values

JsVal(t, v, props) == [t |-> t, v |-> v, props |-> props]
Undefined == JsVal("undefined", "", <<>>)
Null == JsVal("null", "", <<>>)
Str(s) == JsVal("string", s, <<>>)
Num(s) == JsVal("number", s, <<>>)
Bool(s) == JsVal("boolean", s, <<>>)
\* A BigInt: a value JSON.stringify throws on.
BigInt(s) == JsVal("bigint", s, <<>>)
\* An object: its own enumerable properties, in enumeration order.
Obj(props) == JsVal("object", "", props)
Prop(k, v) == [k |-> k, v |-> v]

\* typeof x
TypeOf(x) == IF x.t = "null" THEN "object" ELSE x.t

\* x is truthy (the left operand of || is kept)
Truthy(x) ==
    /\ x.t \notin {"undefined", "null"}
    /\ ~(x.t = "string" /\ x.v = "")
    /\ ~(x.t = "number" /\ x.v = "0")
    /\ ~(x.t = "boolean" /\ x.v = "false")

\* a || b
OrElse(a, b) == IF Truthy(a) THEN a ELSE b

Digit == <<"0", "1", "2", "3", "4", "5", "6", "7", "8", "9">>

\* String(n) for a non-negative integer
RECURSIVE NumStr(_)
NumStr(n) == IF n < 10 THEN Digit[n + 1] ELSE NumStr(n \div 10) \o Digit[(n % 10) + 1]

\* The canonical array-index keys, which an object enumerates first, ascending.
IndexKeys == {NumStr(n) : n \in 0..MaxIndex}
IndexOf(k) == CHOOSE n \in 0..MaxIndex : NumStr(n) = k

Keys(props) == [i \in 1..Len(props) |-> props[i].k]
KeySet(props) == {props[i].k : i \in 1..Len(props)}

\* obj[k]
ObjGet(props, k) ==
    IF k \in KeySet(props)
    THEN props[CHOOSE i \in 1..Len(props) : props[i].k = k].v
    ELSE Undefined

\* Where a new key k enters the enumeration order: an index key before every
\* larger index key and every string key, a string key at the end.
InsertAt(props, k) ==
    IF k \in IndexKeys
    THEN 1 + Cardinality({i \in 1..Len(props) :
                 props[i].k \in IndexKeys /\ IndexOf(props[i].k) < IndexOf(k)})
    ELSE Len(props) + 1

\* obj[k] = v : an existing key keeps its place, a new one is inserted.
ObjSet(props, k, v) ==
    IF k \in KeySet(props)
    THEN [i \in 1..Len(props) |-> IF props[i].k = k THEN Prop(k, v) ELSE props[i]]
    ELSE LET p == InsertAt(props, k)
         IN SubSeq(props, 1, p - 1) \o <<Prop(k, v)>> \o SubSeq(props, p, Len(props))

\* { ...target, ...source } : the own properties of source, set in order.
RECURSIVE Spread(_, _)
Spread(target, source) ==
    IF source = <<>> THEN target
    ELSE Spread(ObjSet(target, Head(source).k, Head(source).v), Tail(source))

\* An object literal / Object.entries order of the pairs written in `pairs`.
ObjectOf(pairs) == Spread(<<>>, pairs)

\* ------------------------------------------------------------------- JSON

Q == "\""
NL == "\n"
Indent == "  "
WhiteSpace == {NL, Indent, " "}

RECURSIVE Indents(_)
Indents(level) == IF level = 0 THEN <<>> ELSE <<Indent>> \o Indents(level - 1)

\* The properties JSON.stringify writes: a property whose value is undefined
\* is left out.
Written(props) == SelectSeq(props, LAMBDA p : p.v.t # "undefined")

\* JSON.stringify(x, null, pretty ? 2 : undefined) for the value x at nesting
\* depth `level`: [ok |-> FALSE] when it throws (a BigInt), else the text.
RECURSIVE Serialize(_, _, _), SerializeMembers(_, _, _)
Serialize(x, level, pretty) ==
    CASE x.t = "string" -> [ok |-> TRUE, text |-> <<Q, x.v, Q>>]
      [] x.t \in {"number", "boolean"} -> [ok |-> TRUE, text |-> <<x.v>>]
      [] x.t = "null" -> [ok |-> TRUE, text |-> <<"null">>]
      [] x.t = "bigint" -> [ok |-> FALSE, text |-> <<>>]
      [] x.t = "object" ->
           IF Written(x.props) = <<>>
           THEN [ok |-> TRUE, text |-> <<"{", "}">>]
           ELSE LET m == SerializeMembers(Written(x.props), level + 1, pretty)
                IN [ok |-> m.ok,
                    text |-> IF pretty
                             THEN <<"{", NL>> \o m.text \o <<NL>> \o Indents(level) \o <<"}">>
                             ELSE <<"{">> \o m.text \o <<"}">>]
      [] OTHER -> [ok |-> TRUE, text |-> <<>>]
SerializeMembers(props, level, pretty) ==
    LET p == Head(props)
        v == Serialize(p.v, level, pretty)
        one == IF pretty
               THEN Indents(level) \o <<Q, p.k, Q, ":", " ">> \o v.text
               ELSE <<Q, p.k, Q, ":">> \o v.text
    IN IF Len(props) = 1
       THEN [ok |-> v.ok, text |-> one]
       ELSE LET rest == SerializeMembers(Tail(props), level, pretty)
            IN [ok |-> v.ok /\ rest.ok,
                text |-> one \o (IF pretty THEN <<",", NL>> ELSE <<",">>) \o rest.text]

\* JSON.stringify(x, null, 2)
StringifyPretty(x) == Serialize(x, 0, TRUE)
\* JSON.stringify(x)
Stringify(x) == Serialize(x, 0, FALSE)

\* The first place at or after i that holds no white space.
RECURSIVE SkipWs(_, _)
SkipWs(t, i) == IF i <= Len(t) /\ t[i] \in WhiteSpace THEN SkipWs(t, i + 1) ELSE i

Tok(t, i) == IF i <= Len(t) THEN t[i] ELSE "<eof>"

NumberTexts == {NumStr(n) : n \in 0..99}
ParseFail == [ok |-> FALSE, val |-> Undefined, next |-> 0]

\* JSON.parse from place i of the text t: the value read and the place after it.
RECURSIVE ParseValue(_, _), ParseMembers(_, _, _)
ParseValue(t, i) ==
    LET c == Tok(t, i)
    IN CASE c = Q ->
              IF i + 2 <= Len(t) /\ t[i + 2] = Q
              THEN [ok |-> TRUE, val |-> Str(t[i + 1]), next |-> i + 3]
              ELSE ParseFail
         [] c = "null" -> [ok |-> TRUE, val |-> Null, next |-> i + 1]
         [] c \in {"true", "false"} -> [ok |-> TRUE, val |-> Bool(c), next |-> i + 1]
         [] c \in NumberTexts -> [ok |-> TRUE, val |-> Num(c), next |-> i + 1]
         [] c = "{" ->
              LET j == SkipWs(t, i + 1)
              IN IF Tok(t, j) = "}"
                 THEN [ok |-> TRUE, val |-> Obj(<<>>), next |-> j + 1]
                 ELSE ParseMembers(t, j, <<>>)
         [] OTHER -> ParseFail
ParseMembers(t, i, props) ==
    IF ~(Tok(t, i) = Q /\ i + 2 <= Len(t) /\ t[i + 2] = Q) THEN ParseFail
    ELSE LET key == t[i + 1]
             colon == SkipWs(t, i + 3)
         IN IF Tok(t, colon) # ":" THEN ParseFail
            ELSE LET v == ParseValue(t, SkipWs(t, colon + 1))
                 IN IF ~v.ok THEN ParseFail
                    ELSE LET sep == SkipWs(t, v.next)
                             now == ObjSet(props, key, v.val)
                         IN CASE Tok(t, sep) = "," -> ParseMembers(t, SkipWs(t, sep + 1), now)
                              [] Tok(t, sep) = "}" ->
                                   [ok |-> TRUE, val |-> Obj(now), next |-> sep + 1]
                              [] OTHER -> ParseFail

\* JSON.parse(t): [ok |-> FALSE] when it throws.
Parse(t) ==
    LET r == ParseValue(t, SkipWs(t, 1))
    IN IF r.ok /\ SkipWs(t, r.next) = Len(t) + 1
       THEN [ok |-> TRUE, val |-> r.val]
       ELSE [ok |-> FALSE, val |-> Undefined]

\* ------------------------------------------------------------ environment

GitExact == "git describe --tags --exact-match"
GitAlways == "git describe --tags --always"
GitRevParse == "git rev-parse --short HEAD"
GitCommands == {GitExact, GitAlways, GitRevParse}

\* What execSync does for one command: it throws (a non-zero exit, no git),
\* or it returns the bytes the command wrote to stdout.
Fails == [fails |-> TRUE, out |-> <<>>]
Prints(out) == [fails |-> FALSE, out |-> out]

\* The outcomes of one command: failure, empty output, white space only, a name.
Outcomes(name) == {Fails, Prints(<<>>), Prints(<<NL>>), Prints(<<name, NL>>)}

\* Every combination of outcomes of the three commands.
AllGitStates ==
    {[c \in GitCommands |->
        CASE c = GitExact -> e [] c = GitAlways -> a [] OTHER -> r] :
        e \in Outcomes("v1.2.3"), a \in Outcomes("v1.2.3-2-gabc1234"),
        r \in Outcomes("abc1234")}

\* No repository; a repository with no tag; HEAD on a tag; a commit after the tag.
NoGit == [c \in GitCommands |-> Fails]
Untagged ==
    [c \in GitCommands |-> IF c = GitExact THEN Fails ELSE Prints(<<"abc1234", NL>>)]
Tagged ==
    [c \in GitCommands |->
        IF c = GitRevParse THEN Prints(<<"abc1234", NL>>) ELSE Prints(<<"v1.2.3", NL>>)]

\* package.json: missing, or a file with this text.
NoFile == [exists |-> FALSE, text |-> <<>>]
File(text) == [exists |-> TRUE, text |-> text]
PkgWithVersion(v) ==
    File(<<"{", NL, Indent, Q, "name", Q, ":", " ", Q, "app", Q, ",", NL,
           Indent, Q, "version", Q, ":", " ", Q, v, Q, NL, "}", NL>>)
PkgNumericVersion == File(<<"{", Q, "version", Q, ":", "1", "}">>)
PkgMalformed == File(<<"{", Q, "version", Q, ":">>)
PkgNotAnObject == File(<<"null">>)
AllPkgStates ==
    {NoFile, PkgWithVersion("0.1.0"), PkgWithVersion("0.2.0"), PkgNumericVersion,
     PkgMalformed, PkgNotAnObject}

\* ---------------------------------------------------------------- helpers

\* String.prototype.trim on chunks: white space is dropped at both ends.
RECURSIVE TrimStart(_), TrimEnd(_), Join(_)
TrimStart(out) ==
    IF out # <<>> /\ Head(out) \in WhiteSpace THEN TrimStart(Tail(out)) ELSE out
TrimEnd(out) ==
    IF out # <<>> /\ out[Len(out)] \in WhiteSpace
    THEN TrimEnd(SubSeq(out, 1, Len(out) - 1)) ELSE out
Join(out) == IF out = <<>> THEN "" ELSE Head(out) \o Join(Tail(out))
Trim(out) == Join(TrimEnd(TrimStart(out)))

\* runCommand(cmd): the trimmed output, or null when execSync throws.
runCommand(git, cmd) ==
    IF git[cmd].fails THEN Null ELSE Str(Trim(git[cmd].out))

\* readPkgVersion(): pkg.version when package.json parses and it is a string.
readPkgVersion(pkg) ==
    IF ~pkg.exists THEN Null
    ELSE LET parsed == Parse(pkg.text)
         IN IF ~parsed.ok \/ parsed.val.t \in {"null", "undefined"} THEN Null
            ELSE LET v == ObjGet(parsed.val.props, "version")
                 IN IF TypeOf(v) = "string" THEN v ELSE Null

Pad2(n) == IF n < 10 THEN "0" \o NumStr(n) ELSE NumStr(n)
Pad3(n) == IF n < 10 THEN "00" \o NumStr(n) ELSE IF n < 100 THEN "0" \o NumStr(n) ELSE NumStr(n)

\* new Date(now).toISOString(), for the first minute of the epoch
ToISOString(now) ==
    "1970-01-01T00:00:" \o Pad2((now \div 1000) % 60) \o "." \o Pad3(now % 1000) \o "Z"

\* collectVersion without its last fallback, String(Date.now()).
collectVersionNoTimestamp(m, git, pkg, now) ==
    LET version ==
            OrElse(runCommand(git, GitExact),
            OrElse(runCommand(git, GitAlways),
                   runCommand(git, GitRevParse)))
        commitShort == runCommand(git, GitRevParse)
    IN ObjectOf(<<Prop("version", version),
                  Prop("commitShort", commitShort),
                  Prop("pkgVersion", readPkgVersion(pkg)),
                  Prop("buildTime", Str(ToISOString(now))),
                  Prop("mode", Str(m))>>)

\* collectVersion(mode): the FullInfo object.
collectVersion(m, git, pkg, now) ==
    LET version ==
            OrElse(runCommand(git, GitExact),
            OrElse(runCommand(git, GitAlways),
            OrElse(runCommand(git, GitRevParse),
                   Str(NumStr(now)))))
        commitShort == runCommand(git, GitRevParse)
    IN ObjectOf(<<Prop("version", version),
                  Prop("commitShort", commitShort),
                  Prop("pkgVersion", readPkgVersion(pkg)),
                  Prop("buildTime", Str(ToISOString(now))),
                  Prop("mode", Str(m))>>)

\* pickFields walking the list from its end.
RECURSIVE PickBackwards(_, _, _)
PickBackwards(out, obj, keys) ==
    IF keys = <<>> THEN out
    ELSE PickBackwards(ObjSet(out, keys[Len(keys)], ObjGet(obj, keys[Len(keys)])), obj,
                       SubSeq(keys, 1, Len(keys) - 1))
pickFieldsBackwards(obj, keys) == PickBackwards(<<>>, obj, keys)

\* pickFields(obj, keys): out[k] = obj[k] for each k of keys, in order.
RECURSIVE PickInto(_, _, _)
PickInto(out, obj, keys) ==
    IF keys = <<>> THEN out
    ELSE PickInto(ObjSet(out, Head(keys), ObjGet(obj, Head(keys))), obj, Tail(keys))
pickFields(obj, keys) == PickInto(<<>>, obj, keys)

\* The digest of a text. SHA-1 is taken to have no collisions: the digest
\* stands for the text it was computed from.
Sha1Hex(content) == <<"sha1">> \o content

\* A header value of the form W/"<hex>" or "<hex>", the wildcard, or no header.
Etag(w, hex) == [w |-> w, hex |-> hex]
NoHeader == Etag("absent", <<>>)

\* weakEtagFor(content)
weakEtagFor(content) == Etag("W/", Sha1Hex(content))

\* buildJson spreading the extra fields first: { ...extraFields, ...pickFields(...) }.
BuildJsonExtraFirst(fields, extra, m, git, pkg, now) ==
    LET full == collectVersion(m, git, pkg, now)
        data == Spread(Spread(<<>>, extra), pickFields(full, fields))
        text == StringifyPretty(Obj(data))
    IN [ok |-> text.ok, json |-> text.text \o <<NL>>, full |-> full, data |-> data]

\* The value buildJson computes: { ...pickFields(full, publicFields), ...extraFields },
\* serialized with a trailing newline. ok is FALSE when JSON.stringify throws.
BuildJsonOf(fields, extra, m, git, pkg, now) ==
    LET full == collectVersion(m, git, pkg, now)
        data == Spread(Spread(<<>>, pickFields(full, fields)), extra)
        text == StringifyPretty(Obj(data))
    IN [ok |-> text.ok, json |-> text.text \o <<NL>>, full |-> full, data |-> data]

\* sha256(input): the digest stands for the bytes it was computed from.
Sha256(input) == <<"sha256">> \o input
NoHash == <<>>

\* fs.statSync(filePath).size
RECURSIVE Size(_)
Size(text) == IF text = <<>> THEN 0 ELSE Len(Head(text)) + Size(Tail(text))

\* writeFileIfChanged deciding by the sizes instead of the digests.
writeFileIfChangedBySize(old, content) ==
    LET existed == old.exists
        newHash == Sha256(content)
    IN IF ~existed \/ Size(old.text) # Size(content)
       THEN [write |-> TRUE, changed |-> TRUE, size |-> Size(content), hash |-> newHash]
       ELSE [write |-> FALSE, changed |-> FALSE, size |-> Size(old.text), hash |-> newHash]

\* writeFileIfChanged(filePath, content) on a file in state old: whether it
\* calls fs.writeFileSync, and what it returns.
writeFileIfChanged(old, content) ==
    LET existed == old.exists
        oldHash == IF existed THEN Sha256(old.text) ELSE NoHash
        newHash == Sha256(content)
    IN IF ~existed \/ oldHash # newHash
       THEN [write |-> TRUE, changed |-> TRUE, size |-> Size(content), hash |-> newHash]
       ELSE [write |-> FALSE, changed |-> FALSE, size |-> Size(old.text), hash |-> newHash]

\* ------------------------------------------------------------------ state

VARIABLES
    \* generateVersion(opts): fixed when the plugin is created
    filename, publicFields, extraFields, exposeVirtualEnabled,
    \* the closure of the plugin instance
    resolvedConfig, mode, command, lastJson, devJson,
    \* what the plugin reads: execSync("git ..."), package.json, Date.now()
    git, pkg, clock,
    \* what the plugin gives the host: the mounted route, the last response of
    \* the middleware and the status and ETag of the one before, the last result
    \* of load(), the emitted asset, the declaration file on disk
    route, res, prev, module, asset, dts,
    \* whether the last hook threw to the host, the build pass it is part of,
    \* and whether buildJson was ever called and what it stored last
    threw, pass, built,
    \* the generated module, running in the client
    listeners, handles, check, invoked,
    \* the files writeFileIfChanged reads and writes, and its last call
    files, lastWrite

optVars == <<filename, publicFields, extraFields, exposeVirtualEnabled>>
pluginVars == <<resolvedConfig, mode, command, lastJson, devJson>>
envVars == <<git, pkg, clock>>
hostVars == <<route, res, prev, module, asset, dts>>
passVars == <<threw, pass, built>>
clientVars == <<listeners, handles, check, invoked>>
fileVars == <<files, lastWrite>>
vars == <<optVars, pluginVars, envVars, hostVars, passVars, clientVars, fileVars>>

virtualId == "virtual:app-version"
defaultFields == <<"pkgVersion", "version", "commitShort", "buildTime">>
FullInfoKeys == {"version", "commitShort", "pkgVersion", "buildTime", "mode"}
EmptyJson == <<"{", "}", NL>>

fieldTypes ==
    [f \in FullInfoKeys |->
        CASE f \in {"commitShort", "pkgVersion"} -> "string | null"
          [] OTHER -> "string"]

\* generateInterface(fields, extraFields): the lines of interface AppVersion,
\* each a field name and its type text.
RECURSIVE ExtraLines(_)
ExtraLines(entries) ==
    IF entries = <<>> THEN <<>>
    ELSE LET val == Head(entries).v
             tsType == IF TypeOf(val) = "object" THEN "Record<string, any>" ELSE TypeOf(val)
         IN <<[name |-> Head(entries).k, type |-> tsType]>> \o ExtraLines(Tail(entries))
generateInterface(fields, extra) ==
    [i \in 1..Len(fields) |-> [name |-> fields[i], type |-> fieldTypes[fields[i]]]]
        \o ExtraLines(extra)

NoDts == [written |-> FALSE, id |-> "", iface |-> <<>>]
\* writeDtsToDisk(virtualId, interfaceCode, dtsDir): the file it writes.
writeDtsToDisk(id, iface) == [written |-> TRUE, id |-> id, iface |-> iface]

\* The try { generateInterface; writeDtsToDisk } catch {} of configResolved
\* and generateBundle: the write happens, or it fails and the file stays.
WriteDts(diskOk) ==
    dts' = IF exposeVirtualEnabled /\ diskOk
           THEN writeDtsToDisk(virtualId, generateInterface(publicFields, extraFields))
           ELSE dts

\* buildJson() of this instance, now.
buildJson == BuildJsonOf(publicFields, extraFields, mode, git, pkg, clock)

NoResponse == [status |-> 0, etag |-> NoHeader, body |-> <<>>, json |-> <<>>, ends |-> 0]
\* What is kept of the response before the last one.
Earlier(r) == [status |-> r.status, etag |-> r.etag]
NoModule == [code |-> FALSE, json |-> <<>>, url |-> <<>>]
NoAsset == [emitted |-> FALSE, fileName |-> <<>>, source |-> <<>>]
NoConfig == [defined |-> FALSE, base |-> <<>>]
NoPass == [stage |-> "none", builds |-> 0, loaded |-> FALSE]
\* A call of checkVersion(): where it stands, how fetch settled and with what
\* body, and how the promise it returned settled.
Call(pc, how, fetched, outcome, result) ==
    [pc |-> pc, how |-> how, fetched |-> fetched, outcome |-> outcome, result |-> result]
Idle == Call("idle", "none", <<>>, "none", Undefined)

\* What the client passes to onCheck: a callback that returns, a callback that
\* throws, something that is no function.
Returning == "cbReturns"
Throwing == "cbThrows"
NotAFunction == "notAFunction"
Callbacks == {Returning, Throwing}
Arguments == Callbacks \cup {NotAFunction}

\* The unsubscribe functions onCheck has returned, by the argument they close
\* over: none yet, returned, or called at least once.
NoHandles == [cb \in Arguments |-> "none"]

\* The paths and contents writeFileIfChanged is called with.
Paths == {"dist/version.json", "dist/meta.json"}
Contents == {<<>>, EmptyJson, <<"{", Q, "a", Q, ":", "1", "}">>, <<"{", Q, "b", Q, ":", "1", "}">>}
Disks == [Paths -> {NoFile} \cup {File(c) : c \in Contents}]

\* A call of writeFileIfChanged: its arguments, whether it returned or threw,
\* what it returned, how often it called fs.writeFileSync, and whether the
\* call before it had the same arguments and returned.
NoWrite ==
    [path |-> "", content |-> <<>>, outcome |-> "none", changed |-> FALSE, size |-> 0,
     hash |-> NoHash, writes |-> 0, again |-> FALSE]

\* No call of writeFileIfChanged was made, and the output directory is empty.
Untouched ==
    /\ files = [path \in Paths |-> NoFile]
    /\ lastWrite = NoWrite

\* The state after generateVersion(opts), in an environment (g, p).
Created(o, g, p) ==
    /\ filename = o.filename
    /\ publicFields = o.publicFields
    /\ extraFields = o.extraFields
    /\ exposeVirtualEnabled = o.exposeVirtual
    /\ resolvedConfig = NoConfig
    /\ mode = "production"
    /\ command = "build"
    /\ lastJson = EmptyJson
    /\ devJson = EmptyJson
    /\ git = g
    /\ pkg = p
    /\ clock = 1
    /\ route = <<>>
    /\ res = NoResponse
    /\ prev = Earlier(NoResponse)
    /\ module = NoModule
    /\ asset = NoAsset
    /\ dts = NoDts
    /\ threw = FALSE
    /\ pass = NoPass
    /\ built = [called |-> FALSE, json |-> EmptyJson]
    /\ listeners = <<>>
    /\ handles = NoHandles
    /\ check = Idle
    /\ invoked = <<>>

\* ------------------------------------------------------------------ paths

\* base.replace(/\/+$/, "/"): a run of slashes at the end becomes one slash.
RECURSIVE DropTrailingSlashes(_), CollapseSlashes(_)
DropTrailingSlashes(path) ==
    IF path # <<>> /\ path[Len(path)] = "/"
    THEN DropTrailingSlashes(SubSeq(path, 1, Len(path) - 1)) ELSE path
ReplaceTrailingSlashes(path) ==
    IF path # <<>> /\ path[Len(path)] = "/"
    THEN DropTrailingSlashes(path) \o <<"/">> ELSE path
CollapseSlashes(path) ==
    IF Len(path) < 2 THEN path
    ELSE IF path[1] = "/" /\ path[2] = "/" THEN CollapseSlashes(Tail(path))
    ELSE <<Head(path)>> \o CollapseSlashes(Tail(path))

\* path.posix.join(a, b)
posixJoin(a, b) ==
    IF a = <<>> THEN CollapseSlashes(b) ELSE CollapseSlashes(a \o <<"/">> \o b)

\* resolvedConfig?.base ?? "/"
BaseOrRoot == IF resolvedConfig.defined THEN resolvedConfig.base ELSE <<"/">>

\* ------------------------------------------------------------------ hooks

\* The resolved configurations of the host: command, mode and base.
Resolved(cmd, m, base) == [command |-> cmd, mode |-> m, base |-> base]
ResolvedConfigs ==
    {Resolved("serve", "development", <<"/">>),
     Resolved("serve", "development", <<"/", "app", "/">>),
     Resolved("build", "production", <<"/", "app", "/">>)}
Ids == {virtualId, "./main.ts"}

\* The build pass as the host steps through it: configResolved (build),
\* buildStart, load*, generateBundle. A hook out of that order ends the pass.
PassAfter(name, builds) ==
    CASE name = "buildStart" /\ pass.stage = "configured" ->
             [pass EXCEPT !.stage = "started", !.builds = @ + builds]
      [] name = "load" /\ pass.stage = "started" ->
             [pass EXCEPT !.loaded = TRUE, !.builds = @ + builds]
      [] name = "resolveId" -> pass
      [] name = "generateBundle" /\ pass.stage = "started" ->
             [pass EXCEPT !.stage = "bundled", !.builds = @ + builds]
      [] OTHER -> NoPass

\* buildJson() was called and gave b.
Built(b) == [called |-> TRUE, json |-> IF b.ok THEN b.json ELSE built.json]

\* configResolved(config)
ConfigResolved(config, diskOk) ==
    /\ ~resolvedConfig.defined
    /\ resolvedConfig' = [defined |-> TRUE, base |-> config.base]
    /\ mode' = config.mode
    /\ command' = config.command
    /\ WriteDts(diskOk)
    /\ threw' = FALSE
    /\ pass' = IF config.command = "build" THEN [NoPass EXCEPT !.stage = "configured"] ELSE NoPass
    /\ built' = built
    /\ UNCHANGED <<fileVars, optVars, lastJson, devJson, envVars, route, res, prev, module, asset,
                   clientVars>>

\* buildStart(): buildJson throws out of the hook when JSON.stringify throws.
BuildStart ==
    \E b \in {buildJson} :
       /\ lastJson' = IF b.ok THEN b.json ELSE lastJson
       /\ devJson' = IF b.ok /\ command = "serve" THEN b.json ELSE devJson
       /\ threw' = ~b.ok
       /\ pass' = PassAfter("buildStart", 1)
       /\ built' = Built(b)
       /\ UNCHANGED <<fileVars, optVars, resolvedConfig, mode, command, envVars, hostVars, clientVars>>

\* generateBundle(): buildJson, this.emitFile, then the declaration file.
GenerateBundle(diskOk) ==
    \E b \in {buildJson} :
       /\ lastJson' = IF b.ok THEN b.json ELSE lastJson
       /\ asset' = IF b.ok
                   THEN [emitted |-> TRUE, fileName |-> filename, source |-> b.json]
                   ELSE asset
       /\ IF b.ok THEN WriteDts(diskOk) ELSE dts' = dts
       /\ threw' = ~b.ok
       /\ pass' = PassAfter("generateBundle", 1)
       /\ built' = Built(b)
       /\ UNCHANGED <<fileVars, optVars, resolvedConfig, mode, command, devJson, envVars, route, res,
                      prev, module, clientVars>>

\* configureServer(server): mounts the middleware.
ConfigureServer ==
    /\ route = <<>>
    /\ route' = posixJoin(ReplaceTrailingSlashes(BaseOrRoot), filename)
    /\ threw' = FALSE
    /\ pass' = PassAfter("configureServer", 0)
    /\ built' = built
    /\ UNCHANGED <<fileVars, optVars, pluginVars, envVars, res, prev, module, asset, dts, clientVars>>

BigIntMessage == "Do not know how to serialize a BigInt"

\* The middleware comparing validators as RFC 9110 weak comparison does: the
\* W/ prefix is ignored, so a strong validator with the same digest matches.
RespondWeakComparison(inm, got) ==
    IF ~got.ok
    THEN [status |-> 500, etag |-> NoHeader,
          body |-> StringifyPretty(Obj(<<Prop("error", Str(BigIntMessage))>>)).text,
          json |-> <<>>, ends |-> 1]
    ELSE LET etag == weakEtagFor(got.json)
         IN IF inm.w \in {"W/", ""} /\ inm.hex = etag.hex
            THEN [status |-> 304, etag |-> etag, body |-> <<>>, json |-> got.json,
                  ends |-> 1]
            ELSE [status |-> 200, etag |-> etag, body |-> got.json, json |-> got.json,
                  ends |-> 1]

\* The middleware without the return after res.end() of the 304 branch:
\* control falls through to res.end(json), and the response is ended twice.
RespondNoReturn(inm, got) ==
    IF ~got.ok
    THEN [status |-> 500, etag |-> NoHeader,
          body |-> StringifyPretty(Obj(<<Prop("error", Str(BigIntMessage))>>)).text,
          json |-> <<>>, ends |-> 1]
    ELSE LET etag == weakEtagFor(got.json)
         IN IF inm = etag
            THEN [status |-> 304, etag |-> etag, body |-> <<>>, json |-> got.json,
                  ends |-> 2]
            ELSE [status |-> 200, etag |-> etag, body |-> got.json, json |-> got.json,
                  ends |-> 1]

\* The response of the middleware to a request with header If-None-Match inm,
\* given what `command === "serve" ? devJson : buildJson()` evaluated to.
Respond(inm, got) ==
    IF ~got.ok
    THEN [status |-> 500, etag |-> NoHeader,
          body |-> StringifyPretty(Obj(<<Prop("error", Str(BigIntMessage))>>)).text,
          json |-> <<>>, ends |-> 1]
    ELSE LET etag == weakEtagFor(got.json)
         IN IF inm = etag
            THEN [status |-> 304, etag |-> etag, body |-> <<>>, json |-> got.json,
                  ends |-> 1]
            ELSE [status |-> 200, etag |-> etag, body |-> got.json, json |-> got.json,
                  ends |-> 1]

\* The middleware calling buildJson() on every request, whatever the command.
RequestRecomputing(inm) ==
    /\ route # <<>>
    /\ prev' = Earlier(res)
    /\ threw' = FALSE
    /\ pass' = PassAfter("request", 0)
    /\ UNCHANGED <<fileVars, optVars, resolvedConfig, mode, command, devJson, envVars, route,
                   module, asset, dts, clientVars>>
    /\ \E got \in {buildJson} :
          /\ lastJson' = IF got.ok THEN got.json ELSE lastJson
          /\ res' = Respond(inm, got)
          /\ built' = Built(got)

\* The middleware handling one request: json is devJson when serving, and
\* buildJson() otherwise.
Request(inm) ==
    /\ route # <<>>
    /\ prev' = Earlier(res)
    /\ threw' = FALSE
    /\ pass' = PassAfter("request", 0)
    /\ UNCHANGED <<fileVars, optVars, resolvedConfig, mode, command, devJson, envVars, route,
                   module, asset, dts, clientVars>>
    /\ \E got \in {IF command = "serve" THEN [ok |-> TRUE, json |-> devJson] ELSE buildJson} :
          /\ lastJson' = IF command # "serve" /\ got.ok THEN got.json ELSE lastJson
          /\ res' = Respond(inm, got)
          /\ built' = IF command = "serve" THEN built ELSE Built(got)

\* The headers a client may present: none, the ETag of the last response, the
\* same digest as a strong validator, the ETag of the empty object, the wildcard.
Headers ==
    {NoHeader, res.etag, Etag("", res.etag.hex), weakEtagFor(EmptyJson), Etag("*", <<>>)}

\* What resolveId(id) returns.
resolveId(id) == IF ~exposeVirtualEnabled THEN "null" ELSE IF id = virtualId THEN virtualId ELSE "null"

\* resolveId(id)
ResolveId(id) ==
    /\ threw' = FALSE
    /\ pass' = PassAfter("resolveId", 0)
    /\ built' = built
    /\ UNCHANGED <<fileVars, optVars, pluginVars, envVars, hostVars, clientVars>>

\* The module load() generates: the JSON it embeds and the URL checkVersion fetches.
LoadCode(json) == [code |-> TRUE, json |-> json, url |-> BaseOrRoot \o filename]

\* load with the two stores exchanged: lastJson when serving, devJson in a build.
loadExchanged(id) ==
    IF ~exposeVirtualEnabled \/ id # virtualId THEN NoModule
    ELSE LoadCode(IF command = "serve" THEN lastJson ELSE devJson)

\* load without the test of exposeVirtualEnabled.
loadAlways(id) ==
    IF id # virtualId THEN NoModule
    ELSE LoadCode(IF command = "serve" THEN devJson ELSE lastJson)

\* What load(id) returns: null, or the module with the JSON it embeds.
load(id) ==
    IF ~exposeVirtualEnabled \/ id # virtualId THEN NoModule
    ELSE LoadCode(IF command = "serve" THEN devJson ELSE lastJson)

\* load(id): the host keeps the module it was given.
Load(id) ==
    LET got == load(id)
    IN /\ module' = IF got.code THEN got ELSE module
       /\ threw' = FALSE
       /\ pass' = IF got.code THEN PassAfter("load", 0) ELSE pass
       /\ built' = built
       /\ UNCHANGED <<fileVars, optVars, pluginVars, envVars, route, res, prev, asset, dts, clientVars>>

\* ------------------------------------------------------------ environment

\* Between two hooks HEAD is tagged.
TagHead ==
    /\ git = Untagged
    /\ git' = Tagged
    /\ UNCHANGED <<fileVars, optVars, pluginVars, pkg, clock, hostVars, passVars, clientVars>>

\* A millisecond passes.
Tick ==
    /\ clock < MaxClock
    /\ clock' = clock + 1
    /\ UNCHANGED <<fileVars, optVars, pluginVars, git, pkg, hostVars, passVars, clientVars>>

\* ------------------------------------------------------------ the helper

\* writeFileIfChanged(filePath, content): fs.writeFileSync succeeds (diskOk) or
\* throws, and then the call throws and the file is as it was.
WriteFileIfChanged(filePath, content, diskOk) ==
    LET w == writeFileIfChanged(files[filePath], content)
        again == /\ lastWrite.outcome = "returned"
                 /\ lastWrite.path = filePath
                 /\ lastWrite.content = content
    IN /\ files' = IF w.write /\ diskOk THEN [files EXCEPT ![filePath] = File(content)]
                   ELSE files
       /\ lastWrite' =
              IF w.write /\ ~diskOk
              THEN [NoWrite EXCEPT !.path = filePath, !.content = content,
                                   !.outcome = "threw", !.again = again]
              ELSE [path |-> filePath, content |-> content, outcome |-> "returned",
                    changed |-> w.changed, size |-> w.size, hash |-> w.hash,
                    writes |-> IF w.write THEN 1 ELSE 0, again |-> again]
       /\ UNCHANGED <<optVars, pluginVars, envVars, hostVars, passVars, clientVars>>

\* Between two calls another process replaces or removes a file.
Interfere(filePath, file) ==
    /\ files[filePath] # file
    /\ files' = [files EXCEPT ![filePath] = file]
    /\ lastWrite' = NoWrite
    /\ UNCHANGED <<optVars, pluginVars, envVars, hostVars, passVars, clientVars>>

\* ------------------------------------------------- the generated module

\* onCheck(cb): the client keeps the unsubscribe function it returns.
OnCheck(cb) ==
    /\ module.code
    /\ cb \in Callbacks => Len(listeners) < MaxListeners
    /\ listeners' = IF cb \in Callbacks THEN Append(listeners, cb) ELSE listeners
    /\ handles' = IF handles[cb] = "none" THEN [handles EXCEPT ![cb] = "returned"]
                   ELSE handles
    /\ UNCHANGED <<fileVars, optVars, pluginVars, envVars, hostVars, passVars, check, invoked>>

\* Unsubscribing with listeners.splice(listeners.indexOf(cb), 1): when cb is
\* not registered indexOf gives -1 and splice removes the last callback.
UnsubscribeSplice(cb) ==
    LET at == IF \E i \in 1..Len(listeners) : listeners[i] = cb
              THEN CHOOSE i \in 1..Len(listeners) :
                       listeners[i] = cb /\ \A j \in 1..(i - 1) : listeners[j] # cb
              ELSE Len(listeners)
    IN /\ handles[cb] # "none"
       /\ listeners' = SubSeq(listeners, 1, at - 1) \o SubSeq(listeners, at + 1, Len(listeners))
       /\ handles' = [handles EXCEPT ![cb] = "called"]
       /\ UNCHANGED <<fileVars, optVars, pluginVars, envVars, hostVars, passVars, check, invoked>>

\* The function onCheck(cb) returned: listeners.filter(fn => fn !== cb)
Unsubscribe(cb) ==
    /\ handles[cb] # "none"
    /\ listeners' = SelectSeq(listeners, LAMBDA fn : fn # cb)
    /\ handles' = [handles EXCEPT ![cb] = "called"]
    /\ UNCHANGED <<fileVars, optVars, pluginVars, envVars, hostVars, passVars, check, invoked>>

\* { updated, latest }
Result(updated, latest) ==
    Obj(<<Prop("updated", Bool(IF updated THEN "true" ELSE "false")), Prop("latest", latest)>>)
Negative == Result(FALSE, Null)

\* listeners.forEach(fn => fn(result)): the calls made, in order, up to and
\* including the first callback that throws.
RECURSIVE ForEach(_, _)
ForEach(ls, result) ==
    IF ls = <<>> THEN [calls |-> <<>>, threw |-> FALSE]
    ELSE IF Head(ls) = Throwing
         THEN [calls |-> <<[cb |-> Head(ls), result |-> result]>>, threw |-> TRUE]
         ELSE LET rest == ForEach(Tail(ls), result)
              IN [calls |-> <<[cb |-> Head(ls), result |-> result]>> \o rest.calls,
                  threw |-> rest.threw]

\* The catch block of checkVersion: a negative result, the callbacks, return.
\* A callback that throws here rejects the promise.
CatchBlock(how, callsSoFar) ==
    LET n == ForEach(listeners, Negative)
    IN /\ invoked' = callsSoFar \o n.calls
       /\ check' = Call("idle", how, check.fetched,
                        IF n.threw THEN "rejected" ELSE "resolved",
                        IF n.threw THEN Undefined ELSE Negative)

\* Inside try: the callbacks are called with result, then it is returned; a
\* callback that throws passes control to the catch block.
NotifyAndReturn(how, result) ==
    LET n == ForEach(listeners, result)
    IN IF n.threw THEN CatchBlock(how, invoked \o n.calls)
       ELSE /\ invoked' = invoked \o n.calls
            /\ check' = Call("idle", how, check.fetched, "resolved", result)

\* checkVersion() is called: fetch(url, { cache: "no-store" }) is awaited.
CheckVersion ==
    /\ module.code
    /\ check.pc = "idle"
    /\ check' = Call("fetching", "none", <<>>, "pending", Undefined)
    /\ invoked' = <<>>
    /\ UNCHANGED <<fileVars, optVars, pluginVars, envVars, hostVars, passVars, listeners, handles>>

\* fetch rejects: the catch block runs.
FetchRejects ==
    /\ check.pc = "fetching"
    /\ CatchBlock("rejected", invoked)
    /\ UNCHANGED <<fileVars, optVars, pluginVars, envVars, hostVars, passVars, listeners, handles>>

\* fetch resolves with res.ok false.
FetchNotOk ==
    /\ check.pc = "fetching"
    /\ NotifyAndReturn("notOk", Negative)
    /\ UNCHANGED <<fileVars, optVars, pluginVars, envVars, hostVars, passVars, listeners, handles>>

\* fetch resolves with res.ok true and this body: res.json() is awaited.
FetchOk(body) ==
    /\ check.pc = "fetching"
    /\ check' = [check EXCEPT !.pc = "parsing", !.how = "ok", !.fetched = body]
    /\ UNCHANGED <<fileVars, optVars, pluginVars, envVars, hostVars, passVars, listeners, handles,
                   invoked>>

\* The object the expression ${json} of the module denotes.
Embedded(json) == Parse(json).val

\* JSON.stringify(latest) !== JSON.stringify(${json})
Differs(latest, json) == Stringify(latest).text # Stringify(Embedded(json)).text

\* res.json() settles: it rejects when the body is no JSON, else the result is
\* built from the parsed value.
JsonSettles ==
    LET latest == Parse(check.fetched)
    IN /\ check.pc = "parsing"
       /\ IF ~latest.ok THEN CatchBlock("ok", invoked)
          ELSE NotifyAndReturn("ok", Result(Differs(latest.val, module.json), latest.val))
       /\ UNCHANGED <<fileVars, optVars, pluginVars, envVars, hostVars, passVars, listeners, handles>>

\* --------------------------------------------------------- specifications

Options(file, fields, expose, extra) ==
    [filename |-> file, publicFields |-> fields, exposeVirtual |-> expose,
     extraFields |-> ObjectOf(extra)]

\* The configurations of the lifecycle: the defaults; chosen fields with extras,
\* one of them named like a field; the virtual module switched off; an extra
\* field JSON.stringify cannot serialize.
LifecycleOptions ==
    {Options(<<"version.json">>, defaultFields, TRUE, <<>>),
     Options(<<"version.json">>, <<"version", "buildTime">>, TRUE,
             <<Prop("env", Str("staging")), Prop("version", Str("9.9.9"))>>),
     Options(<<"meta.json">>, <<"version", "mode">>, FALSE, <<>>),
     Options(<<"version.json">>, <<"version">>, TRUE, <<Prop("release", BigInt("42"))>>)}

Init ==
    \E o \in LifecycleOptions, g \in {NoGit, Untagged} :
        Created(o, g, PkgWithVersion("0.1.0")) /\ Untouched

Configure ==
    \E config \in ResolvedConfigs, diskOk \in BOOLEAN : ConfigResolved(config, diskOk)

\* vite build: the host resolves the configuration, then calls the build hooks.
BuildNext ==
    \/ Configure
    \/ resolvedConfig.defined /\ BuildStart
    \/ resolvedConfig.defined /\ \E diskOk \in BOOLEAN : GenerateBundle(diskOk)
    \/ resolvedConfig.defined /\ \E id \in Ids : ResolveId(id)
    \/ resolvedConfig.defined /\ \E id \in Ids : Load(id)
    \/ TagHead
    \/ Tick

BuildSpec == Init /\ [][BuildNext]_vars

\* vite (dev server): the host resolves the configuration, mounts the
\* middleware, starts the plugin container and serves requests and modules.
ServeNext ==
    \/ Configure
    \/ resolvedConfig.defined /\ ConfigureServer
    \/ resolvedConfig.defined /\ BuildStart
    \/ resolvedConfig.defined /\ \E inm \in Headers : Request(inm)
    \/ resolvedConfig.defined /\ \E id \in Ids : ResolveId(id)
    \/ resolvedConfig.defined /\ \E id \in Ids : Load(id)
    \/ TagHead
    \/ Tick

ServeSpec == Init /\ [][ServeNext]_vars

\* collectVersion over every outcome of the git commands and every state of
\* package.json: the instance publishes all five fields.
AllFields == <<"version", "commitShort", "pkgVersion", "buildTime", "mode">>

CollectInit ==
    \E g \in AllGitStates, p \in AllPkgStates :
        Created(Options(<<"version.json">>, AllFields, TRUE, <<>>), g, p) /\ Untouched

CollectNext ==
    \/ BuildStart
    \/ Tick

CollectSpec == CollectInit /\ [][CollectNext]_vars

\* buildJson over the lists of at most two field names (a name may repeat),
\* the default list, and extra fields: none, new names, names of snapshot
\* fields, array-index names written out of order, an undefined value.
FieldLists ==
    {<<>>, defaultFields}
        \cup {<<f>> : f \in FullInfoKeys}
        \cup {<<f, g>> : f \in FullInfoKeys, g \in FullInfoKeys}
ExtraObjects ==
    {<<>>,
     <<Prop("env", Str("staging"))>>,
     <<Prop("version", Str("9.9.9"))>>,
     <<Prop("apiUrl", Str("https://api.example.com")), Prop("1", Num("42")),
       Prop("0", Bool("true"))>>,
     <<Prop("buildTime", Undefined), Prop("flag", Bool("false"))>>,
     <<Prop("nested", Obj(<<>>)), Prop("mode", Null)>>,
     <<Prop("release", Num("42")), Prop("commitShort", Str("local"))>>}

ProjectInit ==
    \E fields \in FieldLists, extra \in ExtraObjects :
        Created(Options(<<"version.json">>, fields, TRUE, extra), Tagged,
                PkgWithVersion("0.1.0")) /\ Untouched

ProjectNext ==
    \/ BuildStart
    \/ \E diskOk \in BOOLEAN : GenerateBundle(diskOk)

ProjectSpec == ProjectInit /\ [][ProjectNext]_vars

\* The generated module in the client. The instance was configured, buildStart
\* ran and the host loaded the virtual id; the client then registers
\* callbacks and calls checkVersion() against a fetch that settles in any way.
Loaded(o, g, p, config) ==
    LET b == BuildJsonOf(o.publicFields, o.extraFields, config.mode, g, p, 1)
        serving == config.command = "serve"
    IN /\ filename = o.filename
       /\ publicFields = o.publicFields
       /\ extraFields = o.extraFields
       /\ exposeVirtualEnabled = o.exposeVirtual
       /\ resolvedConfig = [defined |-> TRUE, base |-> config.base]
       /\ mode = config.mode
       /\ command = config.command
       /\ lastJson = b.json
       /\ devJson = IF serving THEN b.json ELSE EmptyJson
       /\ git = g
       /\ pkg = p
       /\ clock = 1
       /\ route = <<>>
       /\ res = NoResponse
       /\ prev = Earlier(NoResponse)
       /\ module = [code |-> TRUE, json |-> b.json, url |-> config.base \o o.filename]
       /\ asset = NoAsset
       /\ dts = writeDtsToDisk(virtualId, generateInterface(o.publicFields, o.extraFields))
       /\ threw = FALSE
       /\ pass = IF serving THEN NoPass
                 ELSE [stage |-> "started", builds |-> 1, loaded |-> TRUE]
       /\ built = [called |-> TRUE, json |-> b.json]
       /\ listeners = <<>>
       /\ handles = NoHandles
       /\ check = Idle
       /\ invoked = <<>>

ClientOptions ==
    {Options(<<"version.json">>, defaultFields, TRUE, <<>>),
     Options(<<"version.json">>, <<"version", "buildTime">>, TRUE,
             <<Prop("env", Str("staging")), Prop("version", Str("9.9.9"))>>)}

ClientInit ==
    \E o \in ClientOptions, config \in ResolvedConfigs :
        Loaded(o, Tagged, PkgWithVersion("0.1.0"), config) /\ Untouched

Reverse(seq) == [i \in 1..Len(seq) |-> seq[Len(seq) + 1 - i]]

\* The bodies the endpoint or a mock of it may answer with: the JSON the module
\* was loaded with; the same object in compact form; the same members in the
\* opposite order; the object of a later build; null; an HTML page; a body cut
\* short.
Bodies ==
    LET same == Embedded(module.json)
    IN {module.json,
        Stringify(same).text,
        StringifyPretty(Obj(Reverse(same.props))).text \o <<NL>>,
        StringifyPretty(Obj(ObjSet(same.props, "buildTime",
                                   Str(ToISOString(clock + 1))))).text \o <<NL>>,
        <<"null">>,
        <<"<!doctype html>">>,
        SubSeq(module.json, 1, Len(module.json) - 2)}

ClientNext ==
    \/ \E cb \in Arguments : OnCheck(cb)
    \/ \E cb \in Arguments : Unsubscribe(cb)
    \/ CheckVersion
    \/ FetchRejects
    \/ FetchNotOk
    \/ \E body \in Bodies : FetchOk(body)
    \/ JsonSettles

ClientSpec == ClientInit /\ [][ClientNext]_vars

\* The dev server and the generated module over file names: a plain name, a
\* name in a directory, a name written with a leading slash.
FileNames ==
    {<<"version.json">>, <<"meta", "/", "version.json">>, <<"/", "version.json">>}

PathInit ==
    \E file \in FileNames, g \in {NoGit, Tagged} :
        Created(Options(file, defaultFields, TRUE, <<>>), g, PkgWithVersion("0.1.0"))
            /\ Untouched

PathNext ==
    \/ Configure
    \/ resolvedConfig.defined /\ ConfigureServer
    \/ resolvedConfig.defined /\ BuildStart
    \/ resolvedConfig.defined /\ Load(virtualId)

PathSpec == PathInit /\ [][PathNext]_vars

\* writeFileIfChanged called on files in any state.
FileInit ==
    /\ Created(Options(<<"version.json">>, defaultFields, TRUE, <<>>), NoGit, NoFile)
    /\ files \in Disks
    /\ lastWrite = NoWrite

FileNext ==
    \/ \E filePath \in Paths, content \in Contents, diskOk \in BOOLEAN :
           WriteFileIfChanged(filePath, content, diskOk)
    \/ \E filePath \in Paths, file \in {NoFile} \cup {File(c) : c \in Contents} :
           Interfere(filePath, file)

FileSpec == FileInit /\ [][FileNext]_vars

\* ----------------------------------------------------------------- claims

\* The object a JSON text denotes, and one of its fields.
Published(json) == Parse(json).val.props
Field(json, k) == ObjGet(Published(json), k)
NonEmptyString(x) == x.t = "string" /\ x.v # ""

\* C4: for every combination of outcomes (failure, empty output, non-empty
\* output) of the three git commands, the snapshot collectVersion returns has
\* a non-empty string as its version, and so has every artifact buildJson stored.
C4_VersionNonEmpty ==
    /\ NonEmptyString(ObjGet(collectVersion(mode, git, pkg, clock), "version"))
    /\ built.called => NonEmptyString(Field(lastJson, "version"))

\* C4 witness: one command fails, one prints nothing, one prints white space,
\* and the stored artifact carries the clock as its version.
C4_Witness ==
    /\ git[GitExact] = Fails
    /\ git[GitAlways] = Prints(<<>>)
    /\ git[GitRevParse] = Prints(<<NL>>)
    /\ built.called
    /\ Field(lastJson, "version") = Str(NumStr(clock))

\* C1: a request that presents the ETag F of the last 200 response while the
\* served content is unchanged is answered 304 with an empty body; a request
\* that presents anything else is answered 200 with the full JSON body and
\* ETag F; a 304 is sent only to the ETag of the content, a 200 carries the
\* weak ETag of its body, and equal bodies carry equal ETags.
C1_ConditionalGet ==
    [][\A inm \in Headers :
          Request(inm) =>
            /\ res'.status = 304 => res'.body = <<>> /\ inm = weakEtagFor(res'.json)
            /\ res'.status = 200 =>
                 /\ res'.body = res'.json
                 /\ res'.etag = weakEtagFor(res'.body)
                 /\ inm # res'.etag
            /\ (res.status = 200 /\ res'.json = res.body) =>
                 IF inm = res.etag
                 THEN res'.status = 304 /\ res'.body = <<>>
                 ELSE res'.status = 200 /\ res'.body = res.body /\ res'.etag = res.etag
            /\ (res.status = 200 /\ res'.status = 200 /\ res'.body = res.body) =>
                 res'.etag = res.etag]_vars

\* C1 witness: a 200 response with ETag F, then a 304 with an empty body and
\* the same ETag.
C1_Witness ==
    /\ prev.status = 200
    /\ res.status = 304
    /\ res.body = <<>>
    /\ res.etag = prev.etag
    /\ res.json # EmptyJson

\* The keys of the object written in a JSON text, in the order of the text.
RECURSIVE MemberKeys(_, _)
MemberKeys(t, i) ==
    IF Tok(t, i) # Q THEN <<>>
    ELSE LET v == ParseValue(t, SkipWs(t, SkipWs(t, i + 3) + 1))
             sep == SkipWs(t, v.next)
         IN <<t[i + 1]>> \o (IF v.ok /\ Tok(t, sep) = ","
                             THEN MemberKeys(t, SkipWs(t, sep + 1)) ELSE <<>>)
TextKeys(t) == MemberKeys(t, SkipWs(t, SkipWs(t, 1) + 1))

\* A list without its repetitions, each element at its first place.
RECURSIVE Dedup(_, _)
Dedup(list, seen) ==
    IF list = <<>> THEN <<>>
    ELSE IF Head(list) \in seen THEN Dedup(Tail(list), seen)
    ELSE <<Head(list)>> \o Dedup(Tail(list), seen \cup {Head(list)})

\* The array-index keys of a set, ascending.
RECURSIVE Ascending(_)
Ascending(S) ==
    IF S = {} THEN <<>>
    ELSE LET least == CHOOSE k \in S : \A other \in S : IndexOf(k) <= IndexOf(other)
         IN <<least>> \o Ascending(S \ {least})

\* C5 as amended: the names of publicFields at their first occurrence, then the
\* keys of extraFields not among them, without the keys extraFields sets to
\* undefined, and with the array-index keys moved to the front, ascending.
ExpectedKeys(fields, extra) ==
    LET named == Dedup(fields \o Keys(extra), {})
        kept == SelectSeq(named, LAMBDA k : k \notin KeySet(extra)
                                             \/ ObjGet(extra, k).t # "undefined")
        range == {kept[i] : i \in 1..Len(kept)}
    IN Ascending(range \cap IndexKeys) \o SelectSeq(kept, LAMBDA k : k \notin IndexKeys)

\* C5 (as claimed): the key order of the object buildJson serializes is the
\* publicFields list followed by the keys of extraFields.
C5_Claimed ==
    built.called => TextKeys(lastJson) = publicFields \o Keys(extraFields)

\* C5 (amended): every name of publicFields and every key of extraFields whose
\* value is not undefined appears exactly once and no other key appears; the
\* order is publicFields by first occurrence, then the remaining extraFields
\* keys in insertion order, array-index keys first in ascending order.
C5_KeyOrder ==
    /\ built.called => TextKeys(lastJson) = ExpectedKeys(publicFields, extraFields)
    /\ asset.emitted => TextKeys(asset.source) = ExpectedKeys(publicFields, extraFields)

\* C5 witness: an artifact built from a list that repeats a name and from
\* extra fields with array-index keys.
C5_Witness ==
    /\ built.called
    /\ publicFields = <<"mode", "mode">>
    /\ Keys(extraFields) = <<"0", "1", "apiUrl">>
    /\ TextKeys(lastJson) = <<"0", "1", "mode", "apiUrl">>

\* C6: a key of extraFields named like a publicFields name is published with
\* the extraFields value; every other publicFields key is published with the
\* value collectVersion gave it.
C6_LastWriteWins ==
    built.called =>
        \A i \in 1..Len(publicFields) :
            LET k == publicFields[i]
            IN Field(lastJson, k) =
                   IF k \in KeySet(extraFields) THEN ObjGet(extraFields, k)
                   ELSE ObjGet(collectVersion(mode, git, pkg, clock), k)

\* C6 witness: version is published and commitShort is overridden by the
\* extra field of that name.
C6_Witness ==
    /\ built.called
    /\ publicFields = <<"version", "commitShort">>
    /\ Field(lastJson, "commitShort") = Str("local")
    /\ ObjGet(collectVersion(mode, git, pkg, clock), "commitShort") = Str("abc1234")
    /\ Field(lastJson, "version") = Str("v1.2.3")

\* C7 (as claimed): at the end of a build pass (configResolved with command
\* build, buildStart, loads of the virtual id, generateBundle) the JSON text
\* embedded in the loaded module equals the JSON text emitted as the asset.
C7_Claimed ==
    (pass.stage = "bundled" /\ pass.loaded /\ asset.emitted) => module.json = asset.source

\* C8 (as claimed): in serve mode every request handled by the endpoint calls
\* buildJson before responding, so that the content it answers with is the
\* snapshot of the git and package.json state at the time of the request.
C8_Claimed ==
    [][\A inm \in Headers :
          (Request(inm) /\ command = "serve") =>
              /\ built'.called
              /\ buildJson.ok => built'.json = buildJson.json /\ res'.json = buildJson.json]_vars

\* C9 (as claimed): in a build pass buildJson is called exactly once between
\* configResolved and the end of generateBundle.
C9_Claimed == pass.stage = "bundled" => pass.builds = 1

\* C10: in build mode load of the virtual id recomputes nothing and embeds the
\* JSON the most recent buildJson call stored, and "{}" followed by a newline
\* when buildJson was never called on the instance.
C10_LoadReusesStored ==
    [][\A id \in Ids :
          (Load(id) /\ command = "build" /\ exposeVirtualEnabled /\ id = virtualId) =>
              /\ module'.code
              /\ module'.json = built.json
              /\ ~built.called => module'.json = EmptyJson
              /\ built' = built
              /\ lastJson' = lastJson
              /\ devJson' = devJson]_vars

\* C10 witness: a module loaded in build mode that embeds what buildJson
\* stored, after the environment moved on.
C10_Witness ==
    /\ command = "build"
    /\ module.code
    /\ built.called
    /\ module.json = built.json
    /\ module.json # EmptyJson
    /\ module.json # buildJson.json

\* A value as a mapping, without the order of its members.
RECURSIVE ByValue(_)
ByValue(x) ==
    [t |-> x.t, v |-> x.v,
     members |-> {<<x.props[i].k, ByValue(x.props[i].v)>> : i \in 1..Len(x.props)}]

\* A call of checkVersion() has settled.
Settled == check.pc = "idle" /\ check.outcome # "none"

\* C2 (as claimed): checkVersion() returns {updated: false, latest: L} when
\* the fetched object L is the JSON the module was loaded with, {updated: true,
\* latest: L} when L differs from it by value, and {updated: false, latest:
\* null} when the fetch fails, the response is not ok or the body is no JSON.
C2_Claimed ==
    Settled =>
        LET latest == Parse(check.fetched)
            loaded == Embedded(module.json)
        IN IF check.how = "ok" /\ latest.ok
           THEN /\ latest.val = loaded =>
                     check.outcome = "resolved" /\ check.result = Result(FALSE, latest.val)
                /\ ByValue(latest.val) # ByValue(loaded) =>
                     check.outcome = "resolved" /\ check.result = Result(TRUE, latest.val)
           ELSE check.outcome = "resolved" /\ check.result = Negative

\* C3 (as claimed): the promise checkVersion() returns is never rejected,
\* whatever the fetch, the parse and the registered callbacks do.
C3_Claimed == check.outcome # "rejected"

\* C11 (as claimed): two consecutive buildJson calls with no change of the git
\* state, package.json, mode or options in between give snapshots whose fields
\* other than buildTime are equal, also when no git command succeeds.
C11_Claimed ==
    [][(BuildStart /\ built.called /\ git' = git /\ pkg' = pkg /\ mode' = mode) =>
          \A k \in FullInfoKeys \ {"buildTime"} :
              Field(lastJson', k) = Field(lastJson, k)]_vars

\* C12 (as claimed): no lifecycle hook lets an exception escape to the host.
C12_Claimed == ~threw

\* C13: when buildJson throws while the endpoint builds a response, the request
\* ends with status 500 and the JSON body {error: <message>}; a 500 is sent
\* only then; every request is ended exactly once and nothing escapes the
\* middleware.
C13_ErrorResponse ==
    [][\A inm \in Headers :
          Request(inm) =>
            /\ res'.ends = 1
            /\ ~threw'
            /\ (command # "serve" /\ ~buildJson.ok) =>
                 /\ res'.status = 500
                 /\ Parse(res'.body).ok
                 /\ Parse(res'.body).val = Obj(<<Prop("error", Str(BigIntMessage))>>)
            /\ res'.status = 500 => (command # "serve" /\ ~buildJson.ok)
            /\ res'.status \in {200, 304, 500}]_vars

\* C13 witness: a request answered 500 with the message of the TypeError that
\* JSON.stringify threw, ended once.
C13_Witness ==
    /\ res.status = 500
    /\ res.ends = 1
    /\ ObjGet(Published(res.body), "error") = Str(BigIntMessage)
    /\ ~threw

\* The callbacks registered, as a set.
Registered == {listeners[i] : i \in 1..Len(listeners)}

\* C14: onCheck(cb) returns an unsubscribe function and registers cb after the
\* callbacks already registered when cb is a function; an unsubscribe function
\* removes its callback and nothing else, so that calling one whose callback
\* is not registered leaves the registered callbacks and their order unchanged.
C14_UnsubscribeFrame ==
    [][\A cb \in Arguments :
          /\ OnCheck(cb) =>
               /\ handles'[cb] # "none"
               /\ listeners' = IF cb \in Callbacks THEN Append(listeners, cb) ELSE listeners
          /\ Unsubscribe(cb) =>
               /\ listeners' = SelectSeq(listeners, LAMBDA fn : fn # cb)
               /\ cb \notin Registered => listeners' = listeners]_vars

\* C14 witness: two callbacks are registered at once, and the unsubscribe
\* functions of an argument that was no function and of a callback that is not
\* registered have been called.
C14_Witness ==
    /\ listeners = <<Throwing, Throwing>>
    /\ handles[NotAFunction] = "called"
    /\ handles[Returning] = "called"

\* C15: a call of writeFileIfChanged that returns writes, and returns changed:
\* true, exactly when the file was missing or differed from the content, and
\* leaves the file with the given content and every other file as it was; a
\* second call in a row with the same path and content performs no write and
\* returns changed: false.
C15_IdempotentWrite ==
    [][\A filePath \in Paths, content \in Contents, diskOk \in BOOLEAN :
          (WriteFileIfChanged(filePath, content, diskOk) /\ lastWrite'.outcome = "returned") =>
            /\ lastWrite'.changed <=>
                   (~files[filePath].exists \/ files[filePath].text # content)
            /\ lastWrite'.writes = IF lastWrite'.changed THEN 1 ELSE 0
            /\ files'[filePath] = File(content)
            /\ \A other \in Paths \ {filePath} : files'[other] = files[other]
            /\ lastWrite'.again =>
                   /\ ~lastWrite'.changed
                   /\ lastWrite'.writes = 0
                   /\ files' = files]_vars

\* C15 witness: the second of two calls in a row with the same path and
\* content returned changed: false without writing, and the file holds the content.
C15_Witness ==
    /\ lastWrite.outcome = "returned"
    /\ lastWrite.again
    /\ ~lastWrite.changed
    /\ lastWrite.writes = 0
    /\ lastWrite.content # <<>>
    /\ files[lastWrite.path] = File(lastWrite.content)

\* C16 (as claimed): the field names declared in the generated AppVersion
\* interface are exactly the keys of the published JSON object, each declared
\* once, and each extra field is typed string, number, boolean or
\* Record<string, any>.
C16_Claimed ==
    (dts.written /\ built.called) =>
        LET declared == [i \in 1..Len(dts.iface) |-> dts.iface[i].name]
            published == TextKeys(lastJson)
        IN /\ {declared[i] : i \in 1..Len(declared)} =
                  {published[i] : i \in 1..Len(published)}
           /\ \A i, j \in 1..Len(declared) : i # j => declared[i] # declared[j]
           /\ \A i \in (Len(publicFields) + 1)..Len(dts.iface) :
                  dts.iface[i].type \in {"string", "number", "boolean", "Record<string, any>"}

\* C17: resolveId(id) returns the virtual id, and load(id) returns module
\* code, if and only if exposeVirtual is enabled and id is the virtual id;
\* otherwise both return null; neither changes the state of the plugin.
C17_VirtualOnlyWhenEnabled ==
    [][\A id \in Ids :
          /\ ResolveId(id) =>
               /\ resolveId(id) = (IF exposeVirtualEnabled /\ id = virtualId
                                   THEN virtualId ELSE "null")
               /\ UNCHANGED <<optVars, pluginVars, hostVars>>
          /\ Load(id) =>
               /\ load(id).code <=> (exposeVirtualEnabled /\ id = virtualId)
               /\ ~load(id).code => load(id) = NoModule /\ module' = module
               /\ load(id).code => module' = load(id)
               /\ UNCHANGED <<optVars, pluginVars, route, res, asset, dts>>]_vars

\* C17 witness: with the feature enabled the host resolved and loaded the
\* virtual id and holds the module code, which fetches under the resolved base.
C17_Witness ==
    /\ exposeVirtualEnabled
    /\ resolveId(virtualId) = virtualId
    /\ module = load(virtualId)
    /\ module.code
    /\ module.url = <<"/", "app", "/", "version.json">>

\* C18 (as claimed): when a call of checkVersion() settles, every callback
\* registered has been invoked exactly once during the call, in order, with
\* the result object the call returns, on the success path, the not-ok path
\* and the failure path.
C18_Claimed ==
    [][(check.pc # "idle" /\ check'.pc = "idle") =>
          /\ check'.outcome = "resolved"
          /\ invoked' = [i \in 1..Len(listeners) |->
                            [cb |-> listeners[i], result |-> check'.result]]]_vars

\* C19: in serve mode a request is answered with devJson and a load of the
\* virtual id embeds devJson, so the body served equals the JSON embedded in
\* a module loaded since the last buildStart; neither a request nor a load
\* changes devJson or lastJson, and devJson is written only by buildStart.
C19_ServeConsistent ==
    [][/\ devJson' # devJson => BuildStart
       /\ command = "serve" =>
            /\ \A inm \in Headers :
                  Request(inm) =>
                    /\ devJson' = devJson /\ lastJson' = lastJson
                    /\ res'.json = devJson
                    /\ res'.status = 200 => res'.body = devJson
                    /\ (module.code /\ module.json = devJson /\ res'.status = 200) =>
                           res'.body = module.json
            /\ \A id \in Ids :
                  Load(id) =>
                    /\ devJson' = devJson /\ lastJson' = lastJson
                    /\ load(id).code => module'.json = devJson
                    /\ (load(id).code /\ res.status = 200 /\ res.json = devJson) =>
                           module'.json = res.body]_vars

\* C19 witness: in serve mode, after buildStart and a change of the git state
\* or the clock, a loaded module and a 200 response carry the same JSON.
C19_Witness ==
    /\ command = "serve"
    /\ module.code
    /\ res.status = 200
    /\ res.body = module.json
    /\ module.json = devJson
    /\ devJson # EmptyJson
    /\ buildJson.json # devJson

\* C20 (as claimed): for every resolved base path and file name, the URL the
\* generated checkVersion() fetches equals the route at which configureServer
\* mounts the endpoint.
C20_Claimed == (route # <<>> /\ module.code) => module.url = route

====
